---------------------------- MODULE Spec2Model ----------------------------
(***************************************************************************)
(* Model of the package integrity checker (src/index.js).                  *)
(*                                                                         *)
(* Strings are sequences of one-character strings.  A directory is a       *)
(* record [exists, files] whose files field maps a path (the sequence of   *)
(* its components below the directory) to the file's content.  File        *)
(* contents are abstract values; SHA-256 is modelled as an injective       *)
(* function, its hex output for file contents shortened to one hex digit.  *)
(*                                                                         *)
(* Three specifications share the operators translated from the code:      *)
(*   Spec        main() looping over the configured packages               *)
(*   SpecEnum    getDirectoryChecksum on one directory tree                *)
(*   SpecIgnore  shouldIgnore on one path and one pattern list             *)
(***************************************************************************)
EXTENDS Naturals, Sequences, FiniteSets, TLC

VARIABLES
    configExists,    \* whether config.json exists in the working directory
    pc,              \* main(): "start", "loop", "returned", "exited" or "crashed"
    results,         \* main(): results, one entry per package checked so far
    exitCode,        \* <<status>> once the process has ended, <<>> before
    audit,           \* locals of the checkPackage call that just returned or threw
    dirTree,         \* SpecEnum: the directory handed to getDirectoryChecksum
    ignorePatterns,  \* SpecEnum / SpecIgnore: the ignore list
    checksum,        \* SpecEnum: outcome of getDirectoryChecksum
    filePath,        \* SpecIgnore: the path handed to shouldIgnore
    ignored          \* SpecIgnore: outcome of shouldIgnore

vars == <<configExists, pc, results, exitCode, audit, dirTree, ignorePatterns,
          checksum, filePath, ignored>>

---------------------------------------------------------------------------
(* Bounds                                                                  *)

\* number of packages listed in config.json
NumPackages == 2
\* longest ignore list drawn in SpecEnum and SpecIgnore
MaxIgnoreLen == 2
\* longest path string drawn in SpecIgnore
MaxPathLen == 3

---------------------------------------------------------------------------
(* Strings                                                                 *)

\* The characters in use, in increasing UTF-16 code unit order.
Alphabet ==
    << "\n", "(", "*", "+", ".", "/", "0", "1", "2", "3", ":", "\\", "_",
       "a", "b", "c", "d", "e", "g", "j", "k", "l", "m", "n", "o", "p", "s",
       "u" >>

CharCode(c) == CHOOSE i \in 1..Len(Alphabet) : Alphabet[i] = c

\* s < t as JavaScript compares strings: by code units, a proper prefix first.
StrLess(s, t) ==
    \E k \in 0..Len(s) :
        /\ k <= Len(t)
        /\ \A i \in 1..k : s[i] = t[i]
        /\ \/ k = Len(s) /\ k < Len(t)
           \/ k < Len(s) /\ k < Len(t) /\ CharCode(s[k + 1]) < CharCode(t[k + 1])

RECURSIVE InsertSorted(_, _)
InsertSorted(sorted, s) ==
    IF sorted = <<>> THEN <<s>>
    ELSE IF StrLess(s, Head(sorted)) THEN <<s>> \o sorted
    ELSE <<Head(sorted)>> \o InsertSorted(Tail(sorted), s)

RECURSIVE SortAcc(_, _)
SortAcc(seq, acc) ==
    IF seq = <<>> THEN acc ELSE SortAcc(Tail(seq), InsertSorted(acc, Head(seq)))

\* Mutant of Sort: the array is returned in traversal order.
SortSkipped(seq) == seq

\* Array.prototype.sort() with the default comparator, on strings.
Sort(seq) == SortAcc(seq, <<>>)

\* String.prototype.replace(/c/g, repl) for a one-character pattern c.
RECURSIVE ReplaceAll(_, _, _)
ReplaceAll(s, c, repl) ==
    IF s = <<>> THEN <<>>
    ELSE (IF Head(s) = c THEN repl ELSE <<Head(s)>>) \o ReplaceAll(Tail(s), c, repl)

\* Array.prototype.join(sep) on an array of strings.
RECURSIVE Join(_, _)
Join(parts, sep) ==
    IF parts = <<>> THEN <<>>
    ELSE IF Len(parts) = 1 THEN parts[1]
    ELSE parts[1] \o sep \o Join(Tail(parts), sep)

\* path.basename: the part after the last "/".
RECURSIVE Basename(_)
Basename(p) ==
    IF \A i \in 1..Len(p) : p[i] # "/" THEN p
    ELSE Basename(Tail(p))

\* Set of the strings over chars of length lo..hi.
StringsOver(chars, lo, hi) == UNION {[1..n -> chars] : n \in lo..hi}

\* Set of the sequences over S of length 0..n.
SeqUpTo(S, n) == UNION {[1..k -> S] : k \in 0..n}

---------------------------------------------------------------------------
(* shouldIgnore: the glob pattern turned into a regular expression         *)

\* pattern.replace(/\./g, "\\.").replace(/\*/g, ".*")
RegexPattern(pattern) ==
    ReplaceAll(ReplaceAll(pattern, ".", <<"\\", ".">>), "*", <<".", "*">>)

SyntaxError == [ok |-> FALSE, toks |-> <<>>]

\* The RegExp constructor on the source r, read from position i.  toks are the
\* terms parsed so far, each [any, ch, star]; canRepeat says whether the last
\* term may take a quantifier.  "+" becomes the term followed by its star.
\* The patterns drawn never hold ")", so a "(" is always an unterminated group.
RECURSIVE ParseRegex(_, _, _, _)
ParseRegex(r, i, toks, canRepeat) ==
    IF i > Len(r) THEN [ok |-> TRUE, toks |-> toks]
    ELSE IF r[i] = "\\" THEN
        IF i = Len(r) THEN SyntaxError
        ELSE ParseRegex(r, i + 2,
                 Append(toks, [any |-> FALSE, ch |-> r[i + 1], star |-> FALSE]), TRUE)
    ELSE IF r[i] = "." THEN
        ParseRegex(r, i + 1, Append(toks, [any |-> TRUE, ch |-> ".", star |-> FALSE]), TRUE)
    ELSE IF r[i] = "*" THEN
        IF ~canRepeat THEN SyntaxError
        ELSE ParseRegex(r, i + 1,
                 [toks EXCEPT ![Len(toks)].star = TRUE], FALSE)
    ELSE IF r[i] = "+" THEN
        IF ~canRepeat THEN SyntaxError
        ELSE ParseRegex(r, i + 1,
                 Append(toks, [toks[Len(toks)] EXCEPT !.star = TRUE]), FALSE)
    ELSE IF r[i] = "(" THEN SyntaxError
    ELSE ParseRegex(r, i + 1, Append(toks, [any |-> FALSE, ch |-> r[i], star |-> FALSE]), TRUE)

\* new RegExp(`^${regexPattern}$`)
NewRegExp(regexPattern) == ParseRegex(regexPattern, 1, <<>>, FALSE)

\* One term against one character; "." matches anything but a line terminator.
TermMatches(tok, c) == IF tok.any THEN c # "\n" ELSE c = tok.ch

\* Terms k.. of toks match s from position j to its end (the "$").
RECURSIVE MatchFrom(_, _, _, _)
MatchFrom(toks, k, s, j) ==
    IF k > Len(toks) THEN j > Len(s)
    ELSE IF toks[k].star THEN
        \/ MatchFrom(toks, k + 1, s, j)
        \/ j <= Len(s) /\ TermMatches(toks[k], s[j]) /\ MatchFrom(toks, k, s, j + 1)
    ELSE j <= Len(s) /\ TermMatches(toks[k], s[j]) /\ MatchFrom(toks, k + 1, s, j + 1)

\* regex.test(s) for a regex anchored with ^ and $
RegexTest(regex, s) == MatchFrom(regex.toks, 1, s, 1)

\* shouldIgnore(filePath, ignorePatterns): [threw, value].  The loop stops at
\* the first pattern that matches (return true) or fails to compile (throw).
RECURSIVE ShouldIgnoreFrom(_, _, _)
ShouldIgnoreFrom(path, patterns, i) ==
    IF i > Len(patterns) THEN [threw |-> FALSE, value |-> FALSE]
    ELSE LET regex == NewRegExp(RegexPattern(patterns[i]))
         IN  IF ~regex.ok THEN [threw |-> TRUE, value |-> FALSE]
             ELSE IF RegexTest(regex, path) \/ RegexTest(regex, Basename(path))
                  THEN [threw |-> FALSE, value |-> TRUE]
                  ELSE ShouldIgnoreFrom(path, patterns, i + 1)

ShouldIgnore(path, patterns) == ShouldIgnoreFrom(path, patterns, 1)

---------------------------------------------------------------------------
(* The file system                                                         *)

NodeModulesName == <<"n", "o", "d", "e", "_", "m", "o", "d", "u", "l", "e", "s">>
PackageJsonName == <<"p", "a", "c", "k", "a", "g", "e", ".", "j", "s", "o", "n">>

\* Content of a file that fs.readFileSync cannot read (EACCES, a dangling link).
Unreadable == "EACCES"

\* A directory that does not exist.
NoDir == [exists |-> FALSE, files |-> <<>>]

IsPrefix(dir, path) == Len(dir) <= Len(path) /\ SubSeq(path, 1, Len(dir)) = dir

\* fs.existsSync(dir) for dir below (or equal to) the root of tree
ExistsSync(tree, dir) ==
    /\ tree.exists
    /\ dir = <<>> \/ \E q \in DOMAIN tree.files : IsPrefix(dir, q)

\* entry.isDirectory()
IsDirectory(tree, path) ==
    \E q \in DOMAIN tree.files : Len(q) > Len(path) /\ IsPrefix(path, q)

\* fs.readdirSync(dir): the names in dir, in the order the file system gives
\* them; order lists every name once and stands for that order.
Readdir(tree, dir, order) ==
    LET InDir(name) ==
            \E q \in DOMAIN tree.files : Len(q) > Len(dir) /\ IsPrefix(Append(dir, name), q)
    IN  SelectSeq(order, InDir)

\* path.relative(baseDir, fullPath), fullPath given by its components below baseDir
RelativePath(path) == Join(path, <<"/">>)

---------------------------------------------------------------------------
(* getFilesRecursively, getFileChecksum, getDirectoryChecksum              *)

\* The enumeration left by the SyntaxError of a pattern that does not compile.
Threw == [threw |-> TRUE, files |-> <<>>]

\* getFilesRecursively(dir, baseDir, ignorePatterns): [threw, files].
\* WalkEntries is its for loop from entry i on, files the array built so far.
RECURSIVE GetFilesRecursively(_, _, _, _)
RECURSIVE WalkEntries(_, _, _, _, _, _, _)
WalkEntries(tree, dir, patterns, order, entries, i, files) ==
    IF i > Len(entries) THEN [threw |-> FALSE, files |-> Sort(files)]
    ELSE
      LET fullPath == Append(dir, entries[i])
          relativePath == RelativePath(fullPath)
          skip == WalkEntries(tree, dir, patterns, order, entries, i + 1, files)
      IN  IF entries[i] = NodeModulesName THEN skip
          ELSE
            LET ig == ShouldIgnore(relativePath, patterns)
            IN  IF ig.threw THEN Threw
                ELSE IF ig.value THEN skip
                ELSE IF IsDirectory(tree, fullPath) THEN
                    LET sub == GetFilesRecursively(tree, fullPath, patterns, order)
                    IN  IF sub.threw THEN Threw
                        ELSE WalkEntries(tree, dir, patterns, order, entries, i + 1,
                                         files \o sub.files)
                ELSE WalkEntries(tree, dir, patterns, order, entries, i + 1,
                                 Append(files, relativePath))

GetFilesRecursively(tree, dir, patterns, order) ==
    IF ~ExistsSync(tree, dir) THEN [threw |-> FALSE, files |-> <<>>]
    ELSE WalkEntries(tree, dir, patterns, order, Readdir(tree, dir, order), 1, <<>>)

\* crypto.createHash("sha256").update(content).digest("hex") of a file's
\* content: injective, lowercase hex of fixed length.
Sha256Hex(content) ==
    CASE content = "X"  -> <<"0">>
      [] content = "Y"  -> <<"1">>
      [] content = "V1" -> <<"2">>
      [] content = "V2" -> <<"3">>

\* The same hash of the combined string, kept symbolic (injective).
Sha256OfString(str) == [sha256 |-> str]

\* fs.readFileSync(path.join(dir, file)): the content of the file named file
ReadFileSync(tree, file) ==
    tree.files[CHOOSE p \in DOMAIN tree.files : RelativePath(p) = file]

\* `${f}:${checksums[f]}` for every f of files, joined with "\n"
CombinedString(files, checksums) ==
    Join([i \in 1..Len(files) |-> files[i] \o <<":">> \o checksums[files[i]]], <<"\n">>)

\* No checksum: none computed yet (error "none"), or the call threw error.
ChecksumError(error) ==
    [threw |-> error # "none", error |-> error, files |-> <<>>,
     combined |-> Sha256OfString(<<>>), fileList |-> <<>>]

NoChecksum == ChecksumError("none")

\* getDirectoryChecksum(dir, ignorePatterns): [threw, files, combined, fileList];
\* it throws when the enumeration throws or a listed file cannot be read.
GetDirectoryChecksum(tree, patterns, order) ==
    LET got == GetFilesRecursively(tree, <<>>, patterns, order)
        files == got.files
    IN  IF got.threw THEN ChecksumError("SyntaxError")
        ELSE IF \E i \in 1..Len(files) : ReadFileSync(tree, files[i]) = Unreadable
        THEN ChecksumError(Unreadable)
        ELSE
          LET checksums ==
                  [f \in {files[i] : i \in 1..Len(files)} |-> Sha256Hex(ReadFileSync(tree, f))]
          IN  [threw    |-> FALSE,
               error    |-> "none",
               files    |-> checksums,
               combined |-> Sha256OfString(CombinedString(files, checksums)),
               fileList |-> files]

---------------------------------------------------------------------------
(* checkPackage                                                            *)

\* readJSON(packageJson).version
ReadJSONVersion(content) ==
    CASE content = "V1" -> "1.0.0"
      [] content = "V2" -> "1.0.1"

\* Mutant of VersionMatch: a version mismatch no longer clears success.
VersionMatchAssumed(sourceVersion, installedVersion) == TRUE

\* sourceVersion !== installedVersion decides whether success stays true
VersionMatch(sourceVersion, installedVersion) == sourceVersion = installedVersion

InList(f, list) == \E i \in 1..Len(list) : list[i] = f

\* [...sourceFiles].filter((f) => !installedFiles.has(f))
MissingInInstalled(sourceChecksum, installedChecksum) ==
    LET Missing(f) == ~InList(f, installedChecksum.fileList)
    IN  SelectSeq(sourceChecksum.fileList, Missing)

\* [...installedFiles].filter((f) => !sourceFiles.has(f))
ExtraInInstalled(sourceChecksum, installedChecksum) ==
    LET Extra(f) == ~InList(f, sourceChecksum.fileList)
    IN  SelectSeq(installedChecksum.fileList, Extra)

\* [...sourceFiles].filter((f) => installedFiles.has(f))
CommonFiles(sourceChecksum, installedChecksum) ==
    LET Common(f) == InList(f, installedChecksum.fileList)
    IN  SelectSeq(sourceChecksum.fileList, Common)

\* the loop pushing the common files whose two checksums differ
MismatchedFiles(sourceChecksum, installedChecksum) ==
    LET Differs(f) == sourceChecksum.files[f] # installedChecksum.files[f]
    IN  SelectSeq(CommonFiles(sourceChecksum, installedChecksum), Differs)

\* Mutant of Verdict: the second branch no longer looks at the missing files.
VerdictMissingUnchecked(sourceChecksum, installedChecksum, mismatchedFiles, missingInInstalled) ==
    IF sourceChecksum.combined = installedChecksum.combined THEN "Identical"
    ELSE IF Len(mismatchedFiles) = 0 THEN "EquivalentWithExtras"
    ELSE "Mismatched"

\* The if / else if / else after the comparison, by the branch taken.
Verdict(sourceChecksum, installedChecksum, mismatchedFiles, missingInInstalled) ==
    IF sourceChecksum.combined = installedChecksum.combined THEN "Identical"
    ELSE IF Len(mismatchedFiles) = 0 /\ Len(missingInInstalled) = 0
         THEN "EquivalentWithExtras"
    ELSE "Mismatched"

\* The locals of a checkPackage call that has not reached the comparison.
NoAudit ==
    [packageName |-> 0, stage |-> "none", threw |-> FALSE, success |-> FALSE,
     errors |-> <<>>, sourceVersion |-> "", installedVersion |-> "",
     sourceChecksum |-> NoChecksum, installedChecksum |-> NoChecksum,
     missingInInstalled |-> <<>>, extraInInstalled |-> <<>>,
     mismatchedFiles |-> <<>>, verdict |-> "none"]

\* checkPackage(packageName, config, rootDir) in the environment env:
\*   env.sourcePackageJson  content of <path>/package.json, or "ENOENT"
\*   env.installed          the directory node_modules/<packageName>
\*   env.buildFails         whether execSync(buildScript) throws
\*   env.dist               the directory <path>/<dist> after the build
\*   env.ignore             config.ignore
\*   env.order              the order readdirSync lists names in
\* The result holds the locals at the return (stage says which return) or at
\* the throw (threw).
CheckPackage(packageName, env) ==
    LET base == [NoAudit EXCEPT !.packageName = packageName]
        installedHasJson ==
            env.installed.exists /\ <<PackageJsonName>> \in DOMAIN env.installed.files
    IN
    IF env.sourcePackageJson = "ENOENT" THEN
        [base EXCEPT !.stage = "version",
                     !.errors = <<"Source package.json not found">>]
    ELSE IF ~installedHasJson THEN
        [base EXCEPT !.stage = "version",
                     !.errors = <<"node_modules package.json not found">>]
    ELSE
      LET sourceVersion == ReadJSONVersion(env.sourcePackageJson)
          installedVersion == ReadJSONVersion(env.installed.files[<<PackageJsonName>>])
          success1 == VersionMatch(sourceVersion, installedVersion)
          errors1 == IF success1 THEN <<>> ELSE <<"Version mismatch">>
          versioned == [base EXCEPT !.sourceVersion = sourceVersion,
                                    !.installedVersion = installedVersion]
      IN
      IF env.buildFails THEN
          [versioned EXCEPT !.stage = "build", !.errors = Append(errors1, "Build failed")]
      ELSE IF ~env.dist.exists THEN
          [versioned EXCEPT !.stage = "checksums",
                            !.errors = Append(errors1, "Dist folder not created")]
      ELSE
        LET sourceChecksum == GetDirectoryChecksum(env.dist, env.ignore, env.order)
            installedChecksum == GetDirectoryChecksum(env.installed, env.ignore, env.order)
        IN
        IF sourceChecksum.threw THEN
            [versioned EXCEPT !.stage = "checksums", !.threw = TRUE,
                              !.success = success1, !.errors = errors1,
                              !.sourceChecksum = sourceChecksum]
        ELSE IF installedChecksum.threw THEN
            [versioned EXCEPT !.stage = "checksums", !.threw = TRUE,
                              !.success = success1, !.errors = errors1,
                              !.sourceChecksum = sourceChecksum,
                              !.installedChecksum = installedChecksum]
        ELSE
          LET missingInInstalled == MissingInInstalled(sourceChecksum, installedChecksum)
              extraInInstalled == ExtraInInstalled(sourceChecksum, installedChecksum)
              mismatchedFiles == MismatchedFiles(sourceChecksum, installedChecksum)
              success2 == IF Len(mismatchedFiles) > 0 THEN FALSE ELSE success1
              errors2 == IF Len(mismatchedFiles) > 0
                         THEN Append(errors1, "Checksum mismatch")
                         ELSE errors1
              verdict == Verdict(sourceChecksum, installedChecksum,
                                 mismatchedFiles, missingInInstalled)
              success3 == IF verdict = "Mismatched" THEN FALSE ELSE success2
          IN  [versioned EXCEPT !.stage = "compare",
                                !.success = success3,
                                !.errors = errors2,
                                !.sourceChecksum = sourceChecksum,
                                !.installedChecksum = installedChecksum,
                                !.missingInInstalled = missingInInstalled,
                                !.extraInInstalled = extraInInstalled,
                                !.mismatchedFiles = mismatchedFiles,
                                !.verdict = verdict]

---------------------------------------------------------------------------
(* The environments the actions draw from                                  *)

NameA == <<"a">>
NameB == <<"b">>
\* a file name holding ":" and a line feed
NameColon == <<"a", ":", "0", "\n", "b">>
NamePlus == <<"a", "+">>
NameD == <<"d">>

Range(f) == {f[x] : x \in DOMAIN f}

\* The existing directory holding the files assign gives a content ("-": none).
MakeDir(assign) ==
    [exists |-> TRUE,
     files  |-> [p \in {q \in DOMAIN assign : assign[q] # "-"} |-> assign[p]]]

\* The directories whose files take their contents from options[path].
DirsOver(options) ==
    {MakeDir(g) : g \in {h \in [DOMAIN options -> UNION Range(options)] :
                            \A p \in DOMAIN options : h[p] \in options[p]}}

\* Every order the names of S can be listed in.
OrdersOf(S) ==
    {o \in [1..Cardinality(S) -> S] : \A i, j \in 1..Cardinality(S) : o[i] = o[j] => i = j}

\* Spec: build outputs and installed packages of one flat directory.
DistDirs ==
    DirsOver((<<NameA>> :> {"-", "X", "Y"}) @@ (<<NameB>> :> {"-", "Y", Unreadable})
             @@ (<<NameColon>> :> {"-", "Y"}))

InstalledDirs ==
    DirsOver((<<NameA>> :> {"-", "X", "Y"}) @@ (<<NameB>> :> {"-", "Y"})
             @@ (<<NameColon>> :> {"-", "Y"}) @@ (<<PackageJsonName>> :> {"V1", "V2"}))

MainOrder == <<PackageJsonName, NameB, NameColon, NameA>>

MainIgnoreLists == { <<>>, <<PackageJsonName>> }

EmptyDir == [exists |-> TRUE, files |-> <<>>]
PlainInstalled == MakeDir(<<PackageJsonName>> :> "V1")

Env(sourcePackageJson, installed, buildFails, dist, ignore, order) ==
    [sourcePackageJson |-> sourcePackageJson, installed |-> installed,
     buildFails |-> buildFails, dist |-> dist, ignore |-> ignore, order |-> order]

\* What one package can find on disk: a missing package.json on either side,
\* a failing build, a build that leaves no dist folder, an ignore pattern that
\* is no regular expression, and every pair of trees with every ignore list.
PackageEnvs ==
    LET anyOrder == MainOrder
        versions == {MakeDir(<<PackageJsonName>> :> v) : v \in {"V1", "V2"}}
    IN  {Env("ENOENT", PlainInstalled, FALSE, EmptyDir, <<>>, anyOrder),
         Env("V1", EmptyDir, FALSE, EmptyDir, <<>>, anyOrder),
         Env("V1", NoDir, FALSE, EmptyDir, <<>>, anyOrder)}
        \cup {Env("V1", i, TRUE, NoDir, <<>>, anyOrder) : i \in versions}
        \cup {Env("V1", PlainInstalled, FALSE, NoDir, <<>>, anyOrder)}
        \cup {Env("V1", i, FALSE, EmptyDir, <<PackageJsonName, <<"(">>>>, anyOrder) :
                 i \in versions}
        \cup {Env("V1", i, FALSE, MakeDir(<<NameA>> :> "X"), <<<<"(">>>>, anyOrder) :
                 i \in versions}
        \cup {Env("V1", e[1], FALSE, e[2], e[3], anyOrder) :
                 e \in InstalledDirs \X DistDirs \X MainIgnoreLists}

\* SpecEnum: directory trees with a subdirectory and node_modules folders.
EnumDirs ==
    {NoDir} \cup
    DirsOver((<<NameA>> :> {"-", "X"}) @@ (<<NameD, NameA>> :> {"-", "X"})
             @@ (<<NameD, NamePlus>> :> {"-", "X"})
             @@ (<<NameD, NodeModulesName, NameA>> :> {"-", "X"})
             @@ (<<NodeModulesName, NamePlus>> :> {"-", "X"}))

EnumOrders == OrdersOf({NameA, NamePlus, NameD, NodeModulesName})

EnumPatterns ==
    { <<"a">>, <<"d">>, <<"d", "/", "a">>, <<"a", "+">>, <<"d", "/", "*">> }

\* SpecIgnore: paths and patterns as plain strings.
PathChars == {"a", "+", ".", "/"}

IgnorePatternPool ==
    { <<"a">>, <<"*">>, <<"a", "+">>, <<"(">>, <<"a", ".">>, <<"a", "*">>,
      <<"*", "/", "a">>, <<".", "+">> }

---------------------------------------------------------------------------
(* main                                                                    *)

Init ==
    /\ configExists \in BOOLEAN
    /\ pc = "start"
    /\ results = <<>>
    /\ exitCode = <<>>
    /\ audit = NoAudit
    /\ dirTree = NoDir
    /\ ignorePatterns = <<>>
    /\ checksum = NoChecksum
    /\ filePath = <<>>
    /\ ignored = [threw |-> FALSE, value |-> FALSE]

\* main up to the loop: config.json missing ends the process with status 1.
MainStart ==
    /\ pc = "start"
    /\ IF configExists
       THEN pc' = "loop" /\ exitCode' = exitCode
       ELSE pc' = "exited" /\ exitCode' = <<1>>
    /\ UNCHANGED <<configExists, results, audit, dirTree, ignorePatterns, checksum,
                   filePath, ignored>>

\* The call of checkPackage in one turn of the loop over
\* Object.entries(builds).  A checkPackage that throws is caught nowhere: the
\* process ends with the uncaught exception (status 1) and results never gets
\* the entry.
CheckNextPackage ==
    /\ pc = "loop"
    /\ Len(results) < NumPackages
    /\ \E env \in PackageEnvs :
         audit' = CheckPackage(Len(results) + 1, env)
    /\ pc' = IF audit'.threw THEN "crashed" ELSE "returned"
    /\ exitCode' = IF audit'.threw THEN <<1>> ELSE exitCode
    /\ UNCHANGED <<configExists, results, dirTree, ignorePatterns, checksum,
                   filePath, ignored>>

\* results[packageName] = the value checkPackage returned; its locals are gone.
StoreResult ==
    /\ pc = "returned"
    /\ results' = Append(results, [success |-> audit.success, errors |-> audit.errors])
    /\ audit' = NoAudit
    /\ pc' = "loop"
    /\ UNCHANGED <<configExists, exitCode, dirTree, ignorePatterns, checksum,
                   filePath, ignored>>

\* The summary after the loop and the process.exit that follows it.
Summary ==
    /\ pc = "loop"
    /\ Len(results) = NumPackages
    /\ LET allPassed == \A i \in 1..Len(results) : results[i].success
       IN  exitCode' = IF allPassed THEN <<0>> ELSE <<1>>
    /\ pc' = "exited"
    /\ UNCHANGED <<configExists, results, audit, dirTree, ignorePatterns, checksum,
                   filePath, ignored>>

Next == MainStart \/ CheckNextPackage \/ StoreResult \/ Summary

Spec == Init /\ [][Next]_vars

---------------------------------------------------------------------------
(* getDirectoryChecksum on its own                                         *)

InitEnum ==
    /\ configExists = TRUE
    /\ pc = "enum"
    /\ results = <<>>
    /\ exitCode = <<>>
    /\ audit = NoAudit
    /\ dirTree \in EnumDirs
    /\ ignorePatterns \in SeqUpTo(EnumPatterns, MaxIgnoreLen)
    /\ checksum = NoChecksum
    /\ filePath = <<>>
    /\ ignored = [threw |-> FALSE, value |-> FALSE]

\* One call of getDirectoryChecksum; the file system lists names in any order.
GetDirectoryChecksumStep ==
    /\ pc = "enum"
    /\ \E order \in EnumOrders :
         checksum' = GetDirectoryChecksum(dirTree, ignorePatterns, order)
    /\ pc' = "enum_done"
    /\ UNCHANGED <<configExists, results, exitCode, audit, dirTree, ignorePatterns,
                   filePath, ignored>>

NextEnum == GetDirectoryChecksumStep

SpecEnum == InitEnum /\ [][NextEnum]_vars

---------------------------------------------------------------------------
(* shouldIgnore on its own                                                 *)

InitIgnore ==
    /\ configExists = TRUE
    /\ pc = "ignore"
    /\ results = <<>>
    /\ exitCode = <<>>
    /\ audit = NoAudit
    /\ dirTree = NoDir
    /\ ignorePatterns \in SeqUpTo(IgnorePatternPool, MaxIgnoreLen)
    /\ checksum = NoChecksum
    /\ filePath \in StringsOver(PathChars, 1, MaxPathLen)
    /\ ignored = [threw |-> FALSE, value |-> FALSE]

\* One call of shouldIgnore.
ShouldIgnoreStep ==
    /\ pc = "ignore"
    /\ ignored' = ShouldIgnore(filePath, ignorePatterns)
    /\ pc' = "ignore_done"
    /\ UNCHANGED <<configExists, results, exitCode, audit, dirTree, ignorePatterns,
                   checksum, filePath>>

NextIgnore == ShouldIgnoreStep

SpecIgnore == InitIgnore /\ [][NextIgnore]_vars

---------------------------------------------------------------------------
(* Properties of checkPackage and main (specification Spec)                *)

\* The comparison step of the latest checkPackage call was reached.
Compared == pc = "returned" /\ audit.stage = "compare"

PassingVerdict == audit.verdict \in {"Identical", "EquivalentWithExtras"}

\* C1: a package that reached the comparison with a source file missing from
\* the installed tree, or with a shared file whose digests differ, is never
\* returned with success = true.
C1_MissingOrMismatchNeverPasses ==
    (Compared /\ (Len(audit.missingInInstalled) > 0 \/ Len(audit.mismatchedFiles) > 0))
        => ~audit.success

\* C2: the verdict follows the priority order: equal combined digests give
\* Identical; otherwise no mismatched and no missing file gives
\* EquivalentWithExtras, which leaves success as the version check set it;
\* otherwise Mismatched, which clears success.  Exactly one branch is taken.
C2_VerdictPriority ==
    Compared =>
        LET combinedEqual == audit.sourceChecksum.combined = audit.installedChecksum.combined
            onlyExtras == audit.mismatchedFiles = <<>> /\ audit.missingInInstalled = <<>>
        IN  /\ audit.verdict \in {"Identical", "EquivalentWithExtras", "Mismatched"}
            /\ audit.verdict = "Identical" <=> combinedEqual
            /\ audit.verdict = "EquivalentWithExtras" <=> (~combinedEqual /\ onlyExtras)
            /\ audit.verdict = "Mismatched" <=> (~combinedEqual /\ ~onlyExtras)
            /\ audit.verdict = "EquivalentWithExtras" =>
                   audit.success = (audit.sourceVersion = audit.installedVersion)
            /\ audit.verdict = "Mismatched" => ~audit.success

\* C2 witness: the second branch taken for an installed tree that only adds files.
C2_Witness ==
    /\ Compared
    /\ audit.verdict = "EquivalentWithExtras"
    /\ Len(audit.extraInInstalled) > 0
    /\ Len(audit.sourceChecksum.fileList) > 0
    /\ audit.success

\* C3 as claimed: success is true exactly when the verdict is Identical or
\* EquivalentWithExtras and no file is mismatched.
C3_SuccessIffVerdict ==
    Compared => (audit.success <=> (PassingVerdict /\ audit.mismatchedFiles = <<>>))

\* C3 amended: success is true exactly when the source and installed versions
\* are equal, the verdict is Identical or EquivalentWithExtras, and no file is
\* mismatched.
C3_SuccessIffVersionAndVerdict ==
    Compared =>
        (audit.success <=> /\ audit.sourceVersion = audit.installedVersion
                           /\ PassingVerdict
                           /\ audit.mismatchedFiles = <<>>)

\* C3 witness: identical trees under differing versions are returned as failed.
C3_Witness ==
    /\ Compared
    /\ audit.sourceVersion # audit.installedVersion
    /\ audit.verdict = "Identical"
    /\ Len(audit.sourceChecksum.fileList) > 0
    /\ audit.mismatchedFiles = <<>>
    /\ ~audit.success

\* C4: two fingerprints with equal combined digests have the same file list
\* and the same digest for every path.
C4_CombinedEqualImpliesSameFiles ==
    (Compared /\ audit.sourceChecksum.combined = audit.installedChecksum.combined)
        => /\ audit.sourceChecksum.fileList = audit.installedChecksum.fileList
           /\ audit.sourceChecksum.files = audit.installedChecksum.files

\* The process has ended, by process.exit or by an uncaught exception.
Ended == pc \in {"exited", "crashed"}

\* The latest checkPackage call met error while computing a checksum.
ChecksumFault(error) ==
    audit.sourceChecksum.error = error \/ audit.installedChecksum.error = error

\* C5: a fault while auditing a package (a file that cannot be read, a failed
\* build) is recorded as that package's failure with a reason, and when main
\* ends every configured package has a result.  Runs ended by a pattern that
\* does not compile are left to C9.
C5_FaultRecordedOthersAudited ==
    /\ (ChecksumFault(Unreadable) \/ audit.stage = "build") =>
           /\ pc = "returned"
           /\ ~audit.success
           /\ audit.errors # <<>>
    /\ (Ended /\ configExists /\ ~ChecksumFault("SyntaxError")) =>
           Len(results) = NumPackages

\* C6: with a configuration present the process ends only after all packages
\* have been checked, with status 0 if every result has success = true and
\* with status 1 otherwise.
C6_ExitStatusAfterAllChecked ==
    (Ended /\ configExists) =>
        /\ pc = "exited"
        /\ Len(results) = NumPackages
        /\ exitCode = <<0>> <=> \A i \in 1..NumPackages : results[i].success
        /\ exitCode = <<1>> <=> \E i \in 1..NumPackages : ~results[i].success

---------------------------------------------------------------------------
(* Properties of getDirectoryChecksum (SpecEnum) and shouldIgnore          *)
(* (SpecIgnore)                                                            *)

\* A pattern read as a glob: "*" stands for any run of characters, every
\* other character for itself; the whole of s must be matched.
RECURSIVE GlobMatch(_, _)
GlobMatch(pattern, s) ==
    IF pattern = <<>> THEN s = <<>>
    ELSE IF Head(pattern) = "*" THEN
        \/ GlobMatch(Tail(pattern), s)
        \/ s # <<>> /\ GlobMatch(pattern, Tail(s))
    ELSE s # <<>> /\ Head(s) = Head(pattern) /\ GlobMatch(Tail(pattern), Tail(s))

\* Some pattern of the list, as a glob, is the whole path or its base name.
GlobIgnored(path, patterns) ==
    \E i \in 1..Len(patterns) :
        GlobMatch(patterns[i], path) \/ GlobMatch(patterns[i], Basename(path))

\* The file at path p matches a pattern, or lies below a directory that
\* matches a pattern or is named node_modules.
Excluded(p, patterns) ==
    \/ GlobIgnored(RelativePath(p), patterns)
    \/ \E k \in 1..(Len(p) - 1) :
          \/ p[k] = NodeModulesName
          \/ GlobIgnored(RelativePath(SubSeq(p, 1, k)), patterns)

\* tree without the file at p, and tree with another content at p
WithoutFile(tree, p) ==
    [tree EXCEPT !.files = [q \in DOMAIN tree.files \ {p} |-> tree.files[q]]]

WithContent(tree, p, content) == [tree EXCEPT !.files[p] = content]

EnumReturned == pc = "enum_done" /\ ~checksum.threw

\* C7: a file that matches a pattern of the list, or lies below a directory
\* that matches one or is named node_modules, is in neither fileList nor the
\* digest map, and changing its content or removing it leaves the combined
\* digest unchanged.
C7_IgnoredNeverListed ==
    EnumReturned =>
        \A p \in DOMAIN dirTree.files :
            Excluded(p, ignorePatterns) =>
                /\ ~InList(RelativePath(p), checksum.fileList)
                /\ RelativePath(p) \notin DOMAIN checksum.files
                /\ \A t \in {WithoutFile(dirTree, p), WithContent(dirTree, p, "Y")} :
                       \A order \in EnumOrders :
                           GetDirectoryChecksum(t, ignorePatterns, order).combined
                               = checksum.combined

Sorted(list) == \A i \in 1..(Len(list) - 1) : StrLess(list[i], list[i + 1])

\* C8: whatever the order in which the entries of the directories are read,
\* getFilesRecursively returns the same list, in increasing order without
\* duplicates, and getDirectoryChecksum the same fileList and combined digest.
C8_OrderIndependent ==
    pc = "enum_done" =>
        /\ Sorted(checksum.fileList)
        /\ \A order \in EnumOrders :
               /\ GetDirectoryChecksum(dirTree, ignorePatterns, order) = checksum
               /\ ~checksum.threw =>
                      GetFilesRecursively(dirTree, <<>>, ignorePatterns, order).files
                          = checksum.fileList

\* C8 witness: a listing of files from the root and from a subdirectory, with
\* another file ignored.
C8_Witness ==
    /\ EnumReturned
    /\ InList(RelativePath(<<NameA>>), checksum.fileList)
    /\ InList(RelativePath(<<NameD, NamePlus>>), checksum.fileList)
    /\ <<NameD, NameA>> \in DOMAIN dirTree.files
    /\ ~InList(RelativePath(<<NameD, NameA>>), checksum.fileList)

\* C9: shouldIgnore raises no error, whatever the patterns.
C9_ShouldIgnoreNeverThrows ==
    pc = "ignore_done" => ~ignored.threw

\* C10: shouldIgnore returns true exactly when some pattern, read as a glob
\* whose only special character is "*", is the whole path or its base name.
C10_GlobSemantics ==
    (pc = "ignore_done" /\ ~ignored.threw) =>
        (ignored.value <=> GlobIgnored(filePath, ignorePatterns))

=============================================================================
